---- MODULE Spec2Model ----
(***************************************************************************)
(* Model of the stdout scrapers and flag formatting of the DICOM converter *)
(* adapters Dcm2nii and Dcm2niix (nipype/interfaces/dcm2nii.py), of the    *)
(* dispatch of Parcellate (nipype/interfaces/cmtk/parcellation.py) and of  *)
(* the output names of the MRtrix adapters                                 *)
(* (nipype/interfaces/mrtrix/preprocess.py).                               *)
(*                                                                         *)
(* Text is a sequence of tokens.  A token is either one of the literal     *)
(* marker strings the code tests for ("Saving ", "-->", ...), a single     *)
(* separator character ("/", ".", " ") or a run of ordinary name           *)
(* characters ("img", "SUBJ").  A path is such a sequence too, so that     *)
(* splitting, joining and extension handling are computed, not assumed.    *)
(***************************************************************************)
EXTENDS Naturals, Sequences, FiniteSets, TLC

\* ------------------------------------------------------------------ bounds
\* Largest number of lines of a captured stdout.
MaxLines == 3
\* Largest number of lines of a stdout that is parsed again with other inputs.
MaxRepeatLines == 2
\* at most so many files in source_names
MaxSources == 2
\* at most so many calls of _format_arg on one instance
MaxFormats == 3

\* ------------------------------------------------------------ Python values
\* Python's None (as a string-or-None value).
None == <<"<None>">>

\* A list-valued attribute that was never assigned, and a list-valued output
\* trait that is still undefined.
NoAttr == << <<"<no attribute>">> >>
Undefined == << <<"<undefined>">> >>

\* Truth value of a string-or-None: None and "" are false.
Truthy(x) == x # None /\ x # <<>>

\* s[len(prefix):] when the prefix is the first token(s) of s
After(s, k) == SubSeq(s, k + 1, Len(s))

\* str.startswith for a marker token
StartsWith(line, marker) == Len(line) >= 1 /\ line[1] = marker

\* `marker in line` for a marker token
Contains(line, marker) == \E k \in 1..Len(line) : line[k] = marker

\* ----------------------------------------------------------------- os.path
\* index of the last "/" of p, 0 when there is none (str.rfind + 1)
LastSlash(p) ==
    IF \E k \in 1..Len(p) : p[k] = "/"
    THEN CHOOSE k \in 1..Len(p) : p[k] = "/" /\ \A j \in (k + 1)..Len(p) : p[j] # "/"
    ELSE 0

\* str.rstrip('/')
RECURSIVE RStripSlash(_)
RStripSlash(p) ==
    IF Len(p) > 0 /\ p[Len(p)] = "/" THEN RStripSlash(SubSeq(p, 1, Len(p) - 1)) ELSE p

\* os.path.split: (head, tail) around the last slash; the head loses its
\* trailing slashes unless it consists of slashes only
PathSplit(p) ==
    LET k == LastSlash(p)
        head == SubSeq(p, 1, k)
        tail == After(p, k)
    IN  <<IF RStripSlash(head) = <<>> THEN head ELSE RStripSlash(head), tail>>

\* os.path.join of two parts
PathJoin(a, b) ==
    IF Len(b) > 0 /\ b[1] = "/" THEN b
    ELSE IF a = <<>> \/ a[Len(a)] = "/" THEN a \o b
    ELSE a \o <<"/">> \o b

\* os.path.splitext of a basename: split before the last "." that is
\* preceded by something other than dots
SplitExt(name) ==
    LET dots == {k \in 1..Len(name) :
                    name[k] = "." /\ \E j \in 1..(k - 1) : name[j] # "."}
    IN  IF dots = {} THEN <<name, <<>>>>
        ELSE LET k == CHOOSE d \in dots : \A e \in dots : e <= d
             IN  <<SubSeq(name, 1, k - 1), SubSeq(name, k, Len(name))>>

\* the components of a path: the token runs between slashes (str.split('/'))
RECURSIVE Comps(_)
Comps(p) ==
    IF \A k \in 1..Len(p) : p[k] # "/" THEN <<p>>
    ELSE LET k == CHOOSE s \in 1..Len(p) : p[s] = "/" /\ \A j \in 1..(s - 1) : p[j] # "/"
         IN  <<SubSeq(p, 1, k - 1)>> \o Comps(After(p, k))

\* the loop of os.path.normpath over the components: drops "" and ".",
\* lets ".." remove the component before it
RECURSIVE NormComps(_, _, _)
NormComps(comps, acc, rooted) ==
    IF comps = <<>> THEN acc
    ELSE LET c == Head(comps)
             up == <<".", ".">>
         IN  IF c = <<>> \/ c = <<".">> THEN NormComps(Tail(comps), acc, rooted)
             ELSE IF c # up \/ (~rooted /\ acc = <<>>)
                             \/ (acc # <<>> /\ acc[Len(acc)] = up)
                  THEN NormComps(Tail(comps), Append(acc, c), rooted)
             ELSE IF acc # <<>>
                  THEN NormComps(Tail(comps), SubSeq(acc, 1, Len(acc) - 1), rooted)
             ELSE NormComps(Tail(comps), acc, rooted)

\* '/'.join(comps)
RECURSIVE JoinComps(_)
JoinComps(comps) ==
    IF comps = <<>> THEN <<>>
    ELSE IF Len(comps) = 1 THEN comps[1]
    ELSE comps[1] \o <<"/">> \o JoinComps(Tail(comps))

\* os.path.normpath (POSIX): one leading slash is kept, two are kept as two,
\* three or more collapse to one; the empty result is "."
NormPath(p) ==
    LET lead == IF Len(p) >= 1 /\ p[1] = "/"
                THEN IF Len(p) >= 2 /\ p[2] = "/" /\ ~(Len(p) >= 3 /\ p[3] = "/")
                     THEN <<"/", "/">> ELSE <<"/">>
                ELSE <<>>
        body == JoinComps(NormComps(Comps(p), <<>>, lead # <<>>))
    IN  IF lead \o body = <<>> THEN <<".">> ELSE lead \o body

\* os.getcwd(): the directory the adapter runs in
Cwd == <<"/", "cwd">>

\* os.path.abspath
AbsPath(p) == NormPath(IF Len(p) >= 1 /\ p[1] = "/" THEN p ELSE PathJoin(Cwd, p))

\* nipype.utils.filemanip.split_filename: (directory, name, extension), where
\* ".nii.gz" and ".tar.gz" count as one extension
split_filename(fname) ==
    LET pth == PathSplit(fname)[1]
        name == PathSplit(fname)[2]
        n == Len(name)
        special == n > 4 /\ name[n - 3] = "." /\ name[n - 2] \in {"nii", "tar"}
                         /\ name[n - 1] = "." /\ name[n] = "gz"
    IN  IF special THEN <<pth, SubSeq(name, 1, n - 4), SubSeq(name, n - 3, n)>>
        ELSE <<pth, SplitExt(name)[1], SplitExt(name)[2]>>

\* ------------------------------------------------------------ captured text
\* Lines the classic converter (dcm2nii) can print.
NiiSavingAbs == <<"Saving ", "/", "tmp", "/", "out", "/", "img", ".", "nii">>
NiiSavingRel == <<"Saving ", "rel", ".", "nii">>
NiiSavingEmpty == <<"Saving ">>
NiiGZip == <<"GZip...", "img", ".", "nii", ".", "gz">>
NiiNumDirs == <<"Number of diffusion directions ", "32">>
NiiArrow == <<"img", "-->", " ", "/", "tmp", "/", "out", "/", "b", ".", "nii">>
NiiArrowNoSpace == <<"img", "-->", "x">>
NiiReorient == <<"Reorienting as ", "/", "tmp", "/", "out", "/", "img_reo">>
NiiReorientArrow == <<"Reorienting as ", "a", " ", "-->", " ", "x">>
NiiCrop == <<"Cropping NIfTI/Analyze image ", "/", "tmp", "/", "out", "/", "img", ".", "nii">>
NiiCropArrow == <<"Cropping NIfTI/Analyze image ", "a", " ", "-->", " ", "x">>
NiiOther == <<"Validating", " ", "32">>
NiiEmpty == <<>>

NiiLines ==
    {NiiSavingAbs, NiiSavingRel, NiiSavingEmpty, NiiGZip, NiiNumDirs, NiiArrow,
     NiiArrowNoSpace, NiiReorient, NiiReorientArrow, NiiCrop, NiiCropArrow, NiiOther,
     NiiEmpty}

\* Lines the next-generation converter (dcm2niix) can print.
NiixConvertImg == <<"Convert ", "SUBJ", "/", "img">>
NiixConvertDwi == <<"Convert ", "3", " ", "DICOM", " ", "as", " ", "SUBJ", "/", "dwi", " ", "(64x64)">>
NiixConvertNoPath == <<"Convert ", "img">>
NiixDTI == <<"DTI gradients", " ", "32">>
NiixDTIDirs == <<"Found", " ", "DTI gradient directions">>
NiixOther == <<"Chris", " ", "Rorden's", " ", "dcm2niiX">>

NiixLines ==
    {NiixConvertImg, NiixConvertDwi, NiixConvertNoPath, NiixDTI, NiixDTIDirs, NiixOther}

LinesOf(a) == IF a = "Dcm2nii" THEN NiiLines ELSE NiixLines

\* stdout.split("\n"): at least one line, at most max
Stdouts(a, max) == UNION {[1..n -> LinesOf(a)] : n \in 1..max}

\* ------------------------------------------------------------------- inputs
\* values of the output_dir input; None stands for "not defined"
OutputDirs == {None, <<"/", "data", "/", "out">>, <<".">>}

\* the input fields of each adapter that the model carries, as the user may
\* have set them before the first run; gzip_output and verbose start at their
\* declared default
InputsOf(a) ==
    IF a = "Dcm2nii"
    THEN [output_dir : OutputDirs, gzip_output : {FALSE}]
    ELSE [output_dir : OutputDirs, compress : {"y", "i", "n"},
          bids_format : BOOLEAN, verbose : {FALSE}]

isdefined(v) == v # None

\* _gen_filename('output_dir')
GenOutputDir == Cwd

\* the directory relative names are resolved against
OutputDir(inp) == IF isdefined(inp.output_dir) THEN inp.output_dir ELSE GenOutputDir

\* ------------------------------------------------------------------- state
VARIABLES
    adapter,            \* which adapter class the instance is
    inputs,             \* self.inputs
    stdout,             \* the lines of the captured stdout of the wrapped tool
    pc,                 \* "idle", "parse" (inside the loop), "ran"
    i,                  \* index of the line the loop handles next
    files, reoriented_files, reoriented_and_cropped_files, bvecs, bvals, bids,
    skip, find_b, last_added_file,      \* locals of _parse_stdout
    self,               \* the instance attributes _run_interface assigns
    outputs,            \* what _list_outputs returned last
    error,              \* the exception the last call ended with, or "none"
    calls,              \* the last two finished parser calls: inputs and result
    formatted,          \* the calls of _format_arg so far: field, value, result
    cmdline,            \* the command line assembled last, as text
    specs,              \* argstr of the field specifications the classes share
    called,             \* Parcellate: the library calls of the current invocation
    genname             \* MRtrix adapters: what _gen_filename returned last

vars ==
    <<adapter, inputs, stdout, pc, i, files, reoriented_files,
      reoriented_and_cropped_files, bvecs, bvals, bids, skip, find_b,
      last_added_file, self, outputs, error, calls, formatted, cmdline, specs,
      called, genname>>

\* the state of the parser and of the run
runvars ==
    <<stdout, pc, i, files, reoriented_files, reoriented_and_cropped_files, bvecs,
      bvals, bids, skip, find_b, last_added_file, self, outputs, error, calls>>

\* the state of command-line formatting
fmtvars == <<formatted, cmdline, specs>>

\* the state of the adapters that are no DICOM converters
othervars == <<called, genname>>

locals ==
    <<files, reoriented_files, reoriented_and_cropped_files, bvecs, bvals, bids,
      skip, find_b, last_added_file>>

\* the output an MRtrix adapter reports its file in
OutSlot(a) ==
    CASE a = "MRConvert" -> "converted"
      [] a = "DWI2Tensor" -> "tensor"
      [] a = "Tensor2Vector" -> "vector"
      [] a = "Tensor2FractionalAnisotropy" -> "FA"
      [] a = "Tensor2ApparentDiffusion" -> "ADC"
      [] a = "GenerateWhiteMatterMask" -> "WMprobabilitymap"
      [] OTHER -> "out_file"

\* the second output of DWIDenoise and DWIBiasCorrect, named as the input
\* that asks for it
ExtraField(a) == IF a = "DWIDenoise" THEN "out_noisemap" ELSE "out_bias"

\* output_spec().get(): every output trait undefined
EmptyOutputs(a) ==
    CASE a = "Dcm2nii" ->
           [converted_files |-> Undefined, reoriented_files |-> Undefined,
            reoriented_and_cropped_files |-> Undefined, bvecs |-> Undefined,
            bvals |-> Undefined]
      [] a = "Dcm2niix" ->
           [converted_files |-> Undefined, bvecs |-> Undefined, bvals |-> Undefined,
            bids |-> Undefined]
      [] a = "Parcellate" ->
           [white_matter_mask_file |-> Undefined,
            roi_files_in_structural_space |-> Undefined]
      [] a \in {"DWIDenoise", "DWIBiasCorrect"} ->
           (OutSlot(a) :> None) @@ (ExtraField(a) :> None)
      [] OTHER -> (OutSlot(a) :> None)

\* mutant: the list of files lives on between two calls
FreshLocals_KeepFiles ==
    [files |-> files, reoriented_files |-> <<>>, reoriented_and_cropped_files |-> <<>>,
     bvecs |-> <<>>, bvals |-> <<>>, bids |-> <<>>, skip |-> FALSE, find_b |-> FALSE,
     last_added_file |-> None]

\* the first statements of _parse_stdout: fresh locals on every call
FreshLocals ==
    [files |-> <<>>, reoriented_files |-> <<>>, reoriented_and_cropped_files |-> <<>>,
     bvecs |-> <<>>, bvals |-> <<>>, bids |-> <<>>, skip |-> FALSE, find_b |-> FALSE,
     last_added_file |-> None]

CurLocals ==
    [files |-> files, reoriented_files |-> reoriented_files,
     reoriented_and_cropped_files |-> reoriented_and_cropped_files,
     bvecs |-> bvecs, bvals |-> bvals, bids |-> bids, skip |-> skip,
     find_b |-> find_b, last_added_file |-> last_added_file]

\* assignment of a record of locals to the primed locals
SetLocals(l) ==
    /\ files' = l.files
    /\ reoriented_files' = l.reoriented_files
    /\ reoriented_and_cropped_files' = l.reoriented_and_cropped_files
    /\ bvecs' = l.bvecs
    /\ bvals' = l.bvals
    /\ bids' = l.bids
    /\ skip' = l.skip
    /\ find_b' = l.find_b
    /\ last_added_file' = l.last_added_file

\* the boolean fields _format_arg gives a " y" / " n" suffix
NiiBoolOpts ==
    {"gzip_output", "nii_output", "anonymize", "id_in_filename", "reorient",
     "reorient_and_crop", "convert_all_pars"}

NiixBoolOpts == {"bids_format", "merge_imgs", "single_file", "verbose", "crop", "has_private"}

\* argstr of the fields, as declared in the input specs
ArgStr(opt) ==
    CASE opt = "gzip_output" -> <<"-g">>
      [] opt = "nii_output" -> <<"-n">>
      [] opt = "anonymize" -> <<"-a">>
      [] opt = "id_in_filename" -> <<"-i">>
      [] opt = "reorient" -> <<"-r">>
      [] opt = "reorient_and_crop" -> <<"-x">>
      [] opt = "convert_all_pars" -> <<"-v">>
      [] opt = "bids_format" -> <<"-b">>
      [] opt = "merge_imgs" -> <<"-m">>
      [] opt = "single_file" -> <<"-s">>
      [] opt = "verbose" -> <<"-v">>
      [] opt = "crop" -> <<"-x">>
      [] opt = "has_private" -> <<"-t">>
      [] opt = "source_names" -> <<"%s">>
      [] opt = "source_dir" -> <<"%s">>
      [] opt = "out_filename" -> <<"-f", " ", "%s">>
      [] opt = "output_dir" -> <<"-o", " ", "%s">>
      [] opt = "compress" -> <<"-z", " ", "%s">>

\* an instance of one of the classes A that has not run and has formatted
\* nothing
FreshOf(A) ==
    /\ adapter \in A
    /\ called = <<>>
    /\ genname = None
    /\ formatted = <<>>
    /\ cmdline = <<>>
    /\ specs = [opt \in NiiBoolOpts \cup NiixBoolOpts |-> ArgStr(opt)]
    /\ pc = "idle"
    /\ i = 1
    /\ files = <<>> /\ reoriented_files = <<>> /\ reoriented_and_cropped_files = <<>>
    /\ bvecs = <<>> /\ bvals = <<>> /\ bids = <<>>
    /\ skip = FALSE /\ find_b = FALSE /\ last_added_file = None
    /\ self = [output_files |-> NoAttr, reoriented_files |-> NoAttr,
               reoriented_and_cropped_files |-> NoAttr, bvecs |-> NoAttr,
               bvals |-> NoAttr, bids |-> NoAttr]
    /\ outputs = EmptyOutputs(adapter)
    /\ error = "none"
    /\ calls = <<>>

Fresh == FreshOf({"Dcm2nii", "Dcm2niix"})

Init ==
    /\ Fresh
    /\ inputs \in InputsOf(adapter)
    /\ stdout \in Stdouts(adapter, MaxLines)

\* the same, for the runs that are repeated with other inputs
InitTwice ==
    /\ Fresh
    /\ inputs \in InputsOf(adapter)
    /\ stdout \in Stdouts(adapter, MaxRepeatLines)

\* ----------------------------------------------- Dcm2nii._parse_stdout, body
\* file = line[len("Saving "):]
SavingFile(line) == After(line, 1)

\* mutant: the name is resolved only when gzip output was asked for
GZipFile_OnlyWhenGzip(line, inp) ==
    IF inp.gzip_output THEN AbsPath(PathJoin(OutputDir(inp), After(line, 1)))
    ELSE After(line, 1)

\* file = os.path.abspath(os.path.join(output_dir, line[len("GZip..."):]))
GZipFile(line, inp) == AbsPath(PathJoin(OutputDir(inp), After(line, 1)))

\* mutant: the pattern lost its arrow, '(.*)' matches every line
ArrowFound_AnyLine(line) == TRUE

\* re.search('-->(.*)', line)
ArrowFound(line) == Contains(line, "-->")

\* re.search('.*--> (.*)', line): the position of the last "--> " of the line
\* (the leading .* is greedy), 0 when the pattern does not match
ArrowSearch(line) ==
    LET hits == {k \in 1..(Len(line) - 1) : line[k] = "-->" /\ line[k + 1] = " "}
    IN  IF hits = {} THEN 0 ELSE CHOOSE k \in hits : \A h \in hits : h <= k

\* search.groups()[0]
ArrowFile(line) == After(line, ArrowSearch(line) + 1)

\* mutant: the companion name is appended to the whole file name
BvecOf_KeepExt(last) == last \o <<".", "bvec">>

\* os.path.join(base, filename + ".bvec") of split_filename(last_added_file)
BvecOf(last) ==
    PathJoin(split_filename(last)[1], split_filename(last)[2] \o <<".", "bvec">>)

\* Variant: the ".bval" name keeps the image extension of last_added_file.
BvalOf_KeepExt(last) == last \o <<".", "bval">>

\* os.path.join(base, filename + ".bval") of split_filename(last_added_file)
BvalOf(last) ==
    PathJoin(split_filename(last)[1], split_filename(last)[2] \o <<".", "bval">>)

\* line[len("Reorienting as "):]
ReorientedFile(line) == After(line, 1)

\* mutant: the cropped file keeps the name of the image
CroppedFile_NoPrefix(line) ==
    LET parts == PathSplit(After(line, 1))
    IN  PathJoin(parts[1], parts[2])

\* the cropped image: the name after the marker with "c" put before its basename
CroppedFile(line) ==
    LET parts == PathSplit(After(line, 1))
    IN  PathJoin(parts[1], <<"c">> \o parts[2])

\* mutant: the "-->" pattern is not looked for
NiiFile_NoArrow(l, line, inp) ==
    IF StartsWith(line, "Saving ") THEN SavingFile(line)
    ELSE IF StartsWith(line, "GZip...") THEN GZipFile(line, inp)
    ELSE None

\* the value of `file` after the if/elif chain of a line that is not skipped
NiiFile(l, line, inp) ==
    IF StartsWith(line, "Saving ") THEN SavingFile(line)
    ELSE IF StartsWith(line, "GZip...") THEN GZipFile(line, inp)
    ELSE IF StartsWith(line, "Number of diffusion directions ") THEN None
    ELSE IF ArrowFound(line) THEN ArrowFile(line)
    ELSE None

\* mutant: the last file is forgotten once its companions are recorded
NiiGradients_Forgets(l, line) ==
    IF /\ ~StartsWith(line, "Saving ")
       /\ ~StartsWith(line, "GZip...")
       /\ StartsWith(line, "Number of diffusion directions ")
       /\ Truthy(l.last_added_file)
    THEN [l EXCEPT !.bvecs = Append(@, BvecOf(l.last_added_file)),
                   !.bvals = Append(@, BvalOf(l.last_added_file)),
                   !.last_added_file = None]
    ELSE l

\* the "Number of diffusion directions " branch: companions of the last file
NiiGradients(l, line) ==
    IF /\ ~StartsWith(line, "Saving ")
       /\ ~StartsWith(line, "GZip...")
       /\ StartsWith(line, "Number of diffusion directions ")
       /\ Truthy(l.last_added_file)
    THEN [l EXCEPT !.bvecs = Append(@, BvecOf(l.last_added_file)),
                   !.bvals = Append(@, BvalOf(l.last_added_file))]
    ELSE l

\* mutant: the "Reorienting as " branch forgets to set the skip flag
NiiReorientOrCrop_NoSkip(l, line) ==
    IF StartsWith(line, "Reorienting as ")
    THEN [l EXCEPT !.reoriented_files = Append(@, ReorientedFile(line)), !.skip = FALSE]
    ELSE IF StartsWith(line, "Cropping NIfTI/Analyze image ")
    THEN [l EXCEPT !.reoriented_and_cropped_files = Append(@, CroppedFile(line)),
                   !.skip = TRUE]
    ELSE [l EXCEPT !.skip = FALSE]

\* the second if/elif of the loop body, reached when no file was found
NiiReorientOrCrop(l, line) ==
    IF StartsWith(line, "Reorienting as ")
    THEN [l EXCEPT !.reoriented_files = Append(@, ReorientedFile(line)), !.skip = TRUE]
    ELSE IF StartsWith(line, "Cropping NIfTI/Analyze image ")
    THEN [l EXCEPT !.reoriented_and_cropped_files = Append(@, CroppedFile(line)),
                   !.skip = TRUE]
    ELSE [l EXCEPT !.skip = FALSE]

\* mutant: the skip flag is cleared but the line is classified all the same
NiiLine_SkipNotTested(l, line, inp) ==
    LET file == NiiFile(l, line, inp)
        g == NiiGradients(l, line)
    IN  IF Truthy(file)
        THEN [g EXCEPT !.files = Append(@, file), !.last_added_file = file,
                       !.skip = FALSE]
        ELSE IF l.skip THEN [l EXCEPT !.skip = FALSE]
        ELSE NiiReorientOrCrop(g, line)

\* one iteration of the loop of Dcm2nii._parse_stdout that ends normally
NiiLine(l, line, inp) ==
    IF l.skip THEN [l EXCEPT !.skip = FALSE]
    ELSE LET file == NiiFile(l, line, inp)
             g == NiiGradients(l, line)
         IN  IF Truthy(file)
             THEN [g EXCEPT !.files = Append(@, file), !.last_added_file = file]
             ELSE NiiReorientOrCrop(g, line)

\* the iteration fails: search is None and search.groups() raises
NiiLineRaises(l, line) ==
    /\ ~l.skip
    /\ ~StartsWith(line, "Saving ")
    /\ ~StartsWith(line, "GZip...")
    /\ ~StartsWith(line, "Number of diffusion directions ")
    /\ ArrowFound(line)
    /\ ArrowSearch(line) = 0

\* return files, reoriented_files, reoriented_and_cropped_files, bvecs, bvals
NiiReturn(l) ==
    <<l.files, l.reoriented_files, l.reoriented_and_cropped_files, l.bvecs, l.bvals>>

\* ---------------------------------------------- Dcm2niix._parse_stdout, body
\* tokens that hold white space: they end a \S+ run.  (In the lines above such
\* a token never touches a name, so a run of the other tokens is one word.)
Blank(t) == t \in {" ", "Convert ", "DTI gradients", "DTI gradient directions"}

\* re.search('\S+/\S+', line): <<first, last>> token of the leftmost white-space
\* free word that has a "/" with something before and after it; <<0, 0>> when
\* there is no match (the search returns None)
PathSearch(line) ==
    LET starts == {k \in 1..Len(line) :
                      ~Blank(line[k]) /\ (k = 1 \/ Blank(line[k - 1]))}
        endOf(k) == CHOOSE e \in k..Len(line) :
                       /\ \A j \in k..e : ~Blank(line[j])
                       /\ (e = Len(line) \/ Blank(line[e + 1]))
        hits == {k \in starts : \E j \in (k + 1)..(endOf(k) - 1) : line[j] = "/"}
    IN  IF hits = {} THEN <<0, 0>>
        ELSE LET k == CHOOSE h \in hits : \A g \in hits : h <= g
             IN  <<k, endOf(k)>>

\* fname = str(re.search('\S+/\S+', line).group(0))
ConvertFname(line) == SubSeq(line, PathSearch(line)[1], PathSearch(line)[2])

\* out_file = os.path.abspath(os.path.join(output_dir, fname))
NiixOutFile(line, inp) == AbsPath(PathJoin(OutputDir(inp), ConvertFname(line)))

\* mutant: the compress input is ignored
ConvertedExt_AlwaysGz(compress) == <<".", "nii", ".", "gz">>

\* the extension of a converted file under the compress input
ConvertedExt(compress) ==
    IF compress = "n" THEN <<".", "nii">> ELSE <<".", "nii", ".", "gz">>

\* 'DTI gradients' in line or 'DTI gradient directions' in line
GradientLine(line) ==
    Contains(line, "DTI gradients") \/ Contains(line, "DTI gradient directions")

\* mutant: the pending flag is not cleared once it has been used
NiixConvert_KeepFlag(l, line, inp) ==
    LET out_file == NiixOutFile(line, inp)
        b == IF l.find_b
             THEN [l EXCEPT !.bvecs = Append(@, out_file \o <<".", "bvec">>),
                            !.bvals = Append(@, out_file \o <<".", "bval">>)]
             ELSE l
        f == [b EXCEPT !.files = Append(@, out_file \o ConvertedExt(inp.compress))]
    IN  IF inp.bids_format
        THEN [f EXCEPT !.bids = Append(@, out_file \o <<".", "json">>)]
        ELSE f

\* the "Convert " branch and the `if out_file:` block after it
NiixConvert(l, line, inp) ==
    LET out_file == NiixOutFile(line, inp)
        b == IF l.find_b
             THEN [l EXCEPT !.bvecs = Append(@, out_file \o <<".", "bvec">>),
                            !.bvals = Append(@, out_file \o <<".", "bval">>),
                            !.find_b = FALSE]
             ELSE l
        f == [b EXCEPT !.files = Append(@, out_file \o ConvertedExt(inp.compress))]
    IN  IF inp.bids_format
        THEN [f EXCEPT !.bids = Append(@, out_file \o <<".", "json">>)]
        ELSE f

\* mutant: a gradient line leaves the pending flag alone
NiixLine_FlagNotSet(l, line, inp) ==
    IF l.skip THEN [l EXCEPT !.skip = FALSE]
    ELSE IF StartsWith(line, "Convert ") THEN NiixConvert(l, line, inp)
    ELSE [l EXCEPT !.skip = FALSE]

\* one iteration of the loop of Dcm2niix._parse_stdout that ends normally
NiixLine(l, line, inp) ==
    IF l.skip THEN [l EXCEPT !.skip = FALSE]
    ELSE IF StartsWith(line, "Convert ") THEN NiixConvert(l, line, inp)
    ELSE IF GradientLine(line) THEN [l EXCEPT !.find_b = TRUE, !.skip = FALSE]
    ELSE [l EXCEPT !.skip = FALSE]

\* the iteration fails: re.search returns None and .group(0) raises
NiixLineRaises(l, line) ==
    ~l.skip /\ StartsWith(line, "Convert ") /\ PathSearch(line) = <<0, 0>>

\* the return statement: three sequences, or four when bids is not empty
NiixReturn(l) ==
    IF l.bids = <<>> THEN <<l.files, l.bvecs, l.bvals>>
    ELSE <<l.files, l.bvecs, l.bvals, l.bids>>

\* the number of targets of the tuple assignment in Dcm2niix._run_interface
NiixTargets(inp) == IF inp.bids_format THEN 4 ELSE 3

\* ----------------------------------------------------------------- actions
Line(l, line, inp) ==
    IF adapter = "Dcm2nii" THEN NiiLine(l, line, inp) ELSE NiixLine(l, line, inp)

LineRaises(l, line) ==
    IF adapter = "Dcm2nii" THEN NiiLineRaises(l, line) ELSE NiixLineRaises(l, line)

\* keeps the last two finished calls of _parse_stdout
Remember(ret, err) ==
    LET all == Append(calls, [inputs |-> inputs, ret |-> ret, error |-> err])
    IN  IF Len(all) > 2 THEN Tail(all) ELSE all

\* the user sets a boolean input between two runs
SetInput ==
    /\ pc = "idle"
    /\ \/ /\ adapter = "Dcm2nii"
          /\ inputs' = [inputs EXCEPT !.gzip_output = ~@]
       \/ /\ adapter = "Dcm2niix"
          /\ \/ inputs' = [inputs EXCEPT !.bids_format = ~@]
             \/ inputs' = [inputs EXCEPT !.verbose = ~@]
    /\ UNCHANGED <<adapter, stdout, pc, i, locals, self, outputs, error, calls, fmtvars, othervars>>

\* _run_interface up to the first line of the loop: the base run step has
\* returned (the tool has run), and
\* _parse_stdout starts with fresh locals
ParseStart ==
    /\ pc = "idle"
    /\ pc' = "parse"
    /\ i' = 1
    /\ SetLocals(FreshLocals)
    /\ error' = "none"
    /\ UNCHANGED <<adapter, inputs, stdout, self, outputs, calls, fmtvars, othervars>>

\* mutant: a failed run wipes the stored sequences
RunFails_ClearsOutputs ==
    /\ pc = "idle"
    /\ error' = "ExecutionError"
    /\ self' = [f \in DOMAIN self |-> <<>>]
    /\ UNCHANGED <<adapter, inputs, stdout, pc, i, locals, outputs, calls, fmtvars, othervars>>

\* the base run step of _run_interface fails (the tool exits with a non-zero
\* status): the exception leaves _run_interface at its first statement
RunFails ==
    /\ pc = "idle"
    /\ error' = "ExecutionError"
    /\ UNCHANGED <<adapter, inputs, stdout, pc, i, locals, self, outputs, calls, fmtvars, othervars>>

\* one iteration of the loop over stdout.split("\n")
ParseLine ==
    /\ pc = "parse"
    /\ i <= Len(stdout)
    /\ ~LineRaises(CurLocals, stdout[i])
    /\ SetLocals(Line(CurLocals, stdout[i], inputs))
    /\ i' = i + 1
    /\ UNCHANGED <<adapter, inputs, stdout, pc, self, outputs, error, calls, fmtvars, othervars>>

\* an iteration raises; the exception leaves _parse_stdout and _run_interface
ParseRaise ==
    /\ pc = "parse"
    /\ i <= Len(stdout)
    /\ LineRaises(CurLocals, stdout[i])
    /\ error' = "AttributeError"
    /\ pc' = "idle"
    /\ calls' = Remember(<<>>, "AttributeError")
    /\ UNCHANGED <<adapter, inputs, stdout, i, locals, self, outputs, fmtvars, othervars>>

\* _parse_stdout returns and Dcm2nii._run_interface assigns the five results
NiiAssign ==
    /\ adapter = "Dcm2nii"
    /\ pc = "parse"
    /\ i > Len(stdout)
    /\ self' = [self EXCEPT !.output_files = files,
                            !.reoriented_files = reoriented_files,
                            !.reoriented_and_cropped_files = reoriented_and_cropped_files,
                            !.bvecs = bvecs, !.bvals = bvals]
    /\ pc' = "ran"
    /\ calls' = Remember(NiiReturn(CurLocals), "none")
    /\ UNCHANGED <<adapter, inputs, stdout, i, locals, outputs, error, fmtvars, othervars>>

\* _parse_stdout returns and Dcm2niix._run_interface unpacks the result into
\* three or four targets
NiixAssign ==
    /\ adapter = "Dcm2niix"
    /\ pc = "parse"
    /\ i > Len(stdout)
    /\ Len(NiixReturn(CurLocals)) = NiixTargets(inputs)
    /\ self' = [self EXCEPT !.output_files = files, !.bvecs = bvecs, !.bvals = bvals,
                            !.bids = IF inputs.bids_format THEN bids ELSE @]
    /\ pc' = "ran"
    /\ calls' = Remember(NiixReturn(CurLocals), "none")
    /\ UNCHANGED <<adapter, inputs, stdout, i, locals, outputs, error, fmtvars, othervars>>

\* the tuple assignment of Dcm2niix._run_interface gets the wrong number of
\* values: ValueError, and no attribute is assigned
NiixUnpackRaise ==
    /\ adapter = "Dcm2niix"
    /\ pc = "parse"
    /\ i > Len(stdout)
    /\ Len(NiixReturn(CurLocals)) # NiixTargets(inputs)
    /\ error' = "ValueError"
    /\ pc' = "idle"
    /\ calls' = Remember(NiixReturn(CurLocals), "none")
    /\ UNCHANGED <<adapter, inputs, stdout, i, locals, self, outputs, fmtvars, othervars>>

\* _list_outputs, called once _run_interface has returned
ListOutputs ==
    /\ pc = "ran"
    /\ outputs' =
         IF adapter = "Dcm2nii"
         THEN [converted_files |-> self.output_files,
               reoriented_files |-> self.reoriented_files,
               reoriented_and_cropped_files |-> self.reoriented_and_cropped_files,
               bvecs |-> self.bvecs, bvals |-> self.bvals]
         ELSE [converted_files |-> self.output_files, bvecs |-> self.bvecs,
               bvals |-> self.bvals,
               bids |-> IF inputs.bids_format THEN self.bids ELSE Undefined]
    /\ pc' = "idle"
    /\ UNCHANGED <<adapter, inputs, stdout, i, locals, self, error, calls, fmtvars, othervars>>

\* ------------------------------------------------------------ _format_arg
\* the boolean fields each _format_arg treats specially
BoolOpts(a) == IF a = "Dcm2nii" THEN NiiBoolOpts ELSE NiixBoolOpts

\* the boolean fields declared with usedefault=True: they are always defined
NiiDefaulted == {"gzip_output", "nii_output", "id_in_filename"}

\* argstr % val: the text val in the place of "%s"
Subst(argstr, val) ==
    LET k == CHOOSE j \in 1..Len(argstr) : argstr[j] = "%s"
    IN  SubSeq(argstr, 1, k - 1) \o val \o After(argstr, k)

\* CommandLine._format_arg: argstr % val when the argstr has a "%s"; for a
\* boolean trait whose argstr has none, the argstr when the value is true,
\* nothing (None) when it is false
BaseFormatArg(opt, argstr, val) ==
    IF Contains(argstr, "%s") THEN Subst(argstr, val)
    ELSE IF val THEN argstr ELSE None

\* mutant: a false value is passed on as it is
NiiFormatArg_FalsePassed(opt, argstr, val) ==
    IF opt \in NiiBoolOpts
    THEN IF val THEN BaseFormatArg(opt, argstr \o <<" ", "y">>, val)
         ELSE BaseFormatArg(opt, argstr \o <<" ", "n">>, val)
    ELSE BaseFormatArg(opt, argstr, val)

\* Dcm2nii._format_arg for a boolean value
NiiFormatArg(opt, argstr, val) ==
    IF opt \in NiiBoolOpts
    THEN IF val THEN BaseFormatArg(opt, argstr \o <<" ", "y">>, val)
         ELSE BaseFormatArg(opt, argstr \o <<" ", "n">>, TRUE)
    ELSE BaseFormatArg(opt, argstr, val)

\* mutant: every file of source_names is put on the command line
NiixFormatArg_AllSources(opt, argstr, val) ==
    IF opt \in NiixBoolOpts
    THEN IF val THEN BaseFormatArg(opt, argstr \o <<" ", "y">>, val)
         ELSE BaseFormatArg(opt, argstr \o <<" ", "n">>, TRUE)
    ELSE IF opt = "source_names"
    THEN Subst(argstr, val[1]) \o (IF Len(val) > 1 THEN <<" ">> \o val[2] ELSE <<>>)
    ELSE BaseFormatArg(opt, argstr, val)

\* Dcm2niix._format_arg
NiixFormatArg(opt, argstr, val) ==
    IF opt \in NiixBoolOpts
    THEN IF val THEN BaseFormatArg(opt, argstr \o <<" ", "y">>, val)
         ELSE BaseFormatArg(opt, argstr \o <<" ", "n">>, TRUE)
    ELSE IF opt = "source_names" THEN Subst(argstr, val[1])
    ELSE BaseFormatArg(opt, argstr, val)

\* the boolean fields as the user may have set them: a field outside the
\* domain is not defined
FlagInputs(a) ==
    IF a = "Dcm2nii"
    THEN UNION {[NiiDefaulted \cup D -> BOOLEAN] : D \in SUBSET (NiiBoolOpts \ NiiDefaulted)}
    ELSE [NiixBoolOpts -> BOOLEAN]

\* mutant: the suffix is added to the argstr of the shared specification
SharedSpecs_NoCopy(sp, opt, val) ==
    [sp EXCEPT ![opt] = @ \o <<" ", IF val THEN "y" ELSE "n">>]

\* spec = deepcopy(spec): the suffix goes to the argstr of a private copy,
\* the specification the class shares keeps its argstr
SharedSpecs(sp, opt, val) == sp

\* _parse_inputs formats one defined boolean field, handing _format_arg the
\* specification of the field
FormatArg ==
    /\ Len(formatted) < MaxFormats
    /\ \E opt \in (DOMAIN inputs) \cap BoolOpts(adapter) :
         /\ formatted' =
              Append(formatted,
                     [opt |-> opt, val |-> inputs[opt],
                      arg |-> IF adapter = "Dcm2nii"
                              THEN NiiFormatArg(opt, specs[opt], inputs[opt])
                              ELSE NiixFormatArg(opt, specs[opt], inputs[opt])])
         /\ specs' = SharedSpecs(specs, opt, inputs[opt])
    /\ UNCHANGED <<adapter, inputs, runvars, cmdline, othervars>>

\* ---------------------------------------------------------------- cmdline
\* the files source_names may list
SourceFiles == {<<"functional_1", ".", "dcm">>, <<"functional_2", ".", "dcm">>}

SourceNames == UNION {[1..n -> SourceFiles] : n \in 1..MaxSources}

\* the inputs of Dcm2niix that reach the command line; source_names and
\* source_dir may be undefined, the other fields have defaults
CmdInputs ==
    [source_names : SourceNames \cup {Undefined},
     source_dir : {None, <<"dicoms">>},
     out_filename : {<<"%t%p">>, <<"scan">>},
     output_dir : OutputDirs,
     compress : {"y", "i", "n"},
     bids_format : BOOLEAN, merge_imgs : BOOLEAN, single_file : BOOLEAN,
     verbose : BOOLEAN, crop : BOOLEAN, has_private : BOOLEAN]

\* the traits of Dcm2niixInputSpec that have an argstr, in the order
\* _parse_inputs visits them (sorted by name)
NiixArgNames ==
    <<"bids_format", "compress", "crop", "has_private", "merge_imgs", "out_filename",
      "output_dir", "single_file", "source_dir", "source_names", "verbose">>

\* position metadata: source_names and source_dir have position -1
Positioned(opt) == opt \in {"source_names", "source_dir"}

CmdDefined(inp, opt) ==
    CASE opt = "source_names" -> inp.source_names # Undefined
      [] opt = "source_dir" -> isdefined(inp.source_dir)
      [] OTHER -> TRUE

\* the value _parse_inputs formats: the input, or for the genfile field
\* output_dir what _gen_filename returns
CmdValue(inp, opt) ==
    CASE opt = "output_dir" -> OutputDir(inp)
      [] opt = "compress" -> <<inp.compress>>
      [] OTHER -> inp[opt]

\* _check_mandatory_inputs: one and only one of the exclusive mandatory
\* fields source_names, source_dir is set
MandatoryOk(inp) == CmdDefined(inp, "source_names") # CmdDefined(inp, "source_dir")

\* ' '.join(args)
RECURSIVE JoinArgs(_)
JoinArgs(args) ==
    IF args = <<>> THEN <<>>
    ELSE IF Len(args) = 1 THEN args[1]
    ELSE args[1] \o <<" ">> \o JoinArgs(Tail(args))

\* _parse_inputs: the formatted arguments of the defined fields, those
\* without a position in the order of the names, then the one at position -1
ParseInputs(inp) ==
    LET arg(k) == IF CmdDefined(inp, NiixArgNames[k])
                  THEN NiixFormatArg(NiixArgNames[k], ArgStr(NiixArgNames[k]),
                                     CmdValue(inp, NiixArgNames[k]))
                  ELSE None
        all == [k \in 1..Len(NiixArgNames) |-> arg(k)]
        emitted(k) == all[k] # None
        idx == SelectSeq([k \in 1..Len(NiixArgNames) |-> k], emitted)
        free(k) == ~Positioned(NiixArgNames[k])
        last(k) == Positioned(NiixArgNames[k])
        all_args == [k \in 1..Len(SelectSeq(idx, free)) |-> all[SelectSeq(idx, free)[k]]]
        final == SelectSeq(idx, last)
        \* final_args is a dict keyed by position: a later name overwrites
        last_args == IF final = <<>> THEN <<>> ELSE <<all[final[Len(final)]]>>
    IN  all_args \o last_args

\* the cmdline property: the command and the arguments, joined by blanks
NiixCmdline(inp) == JoinArgs(<<<<"dcm2niix">>>> \o ParseInputs(inp))

\* Dcm2niix().cmdline
Cmdline ==
    /\ adapter = "Dcm2niix"
    /\ MandatoryOk(inputs)
    /\ cmdline' = NiixCmdline(inputs)
    /\ error' = "none"
    /\ UNCHANGED <<adapter, inputs, stdout, pc, i, locals, self, outputs, calls, formatted,
                   specs, othervars>>

\* Dcm2niix().cmdline with both or none of source_names and source_dir
CmdlineRaise ==
    /\ adapter = "Dcm2niix"
    /\ ~MandatoryOk(inputs)
    /\ error' = "ConfigurationError"
    /\ UNCHANGED <<adapter, inputs, stdout, pc, i, locals, self, outputs, calls, fmtvars, othervars>>

\* -------------------------------------------------------------- Parcellate
Schemes == {"Lausanne2008", "NativeFreesurfer"}

\* subjects_dir has no default and may be undefined
ParcellateInputs ==
    [subject_id : {"subj1", "subj2", "subj3", "subj4"},
     subjects_dir : {None, <<".">>, <<"/", "fs">>},
     parcellation_scheme : Schemes]

\* a call of a function of cmtklib.parcellation with the two arguments
Call(fn, inp) == [fn |-> fn, subject_id |-> inp.subject_id, subjects_dir |-> inp.subjects_dir]

\* the user chooses the other scheme between two runs
SetScheme ==
    /\ adapter = "Parcellate"
    /\ pc = "idle"
    /\ \E s \in Schemes \ {inputs.parcellation_scheme} :
         inputs' = [inputs EXCEPT !.parcellation_scheme = s]
    /\ UNCHANGED <<adapter, runvars, fmtvars, othervars>>

\* Parcellate._run_interface is entered
ParcellateRun ==
    /\ adapter = "Parcellate"
    /\ pc = "idle"
    /\ pc' = "scheme1"
    /\ called' = <<>>
    /\ error' = "none"
    /\ UNCHANGED <<adapter, inputs, stdout, i, locals, self, outputs, calls, fmtvars, genname>>

\* the first if statement
ParcellateLausanne ==
    /\ adapter = "Parcellate"
    /\ pc = "scheme1"
    /\ called' =
         IF inputs.parcellation_scheme = "Lausanne2008"
         THEN called \o <<Call("create_annot_label", inputs), Call("create_roi", inputs),
                          Call("create_wm_mask", inputs),
                          Call("crop_and_move_datasets", inputs)>>
         ELSE called
    /\ pc' = "scheme2"
    /\ UNCHANGED <<adapter, inputs, stdout, i, locals, self, outputs, error, calls, fmtvars,
                   genname>>

\* mutant: the second sequence of calls is made whatever the scheme
ParcellateNative_Always ==
    /\ adapter = "Parcellate"
    /\ pc = "scheme2"
    /\ called' = called \o <<Call("generate_WM_and_GM_mask", inputs),
                             Call("crop_and_move_WM_and_GM", inputs)>>
    /\ pc' = "idle"
    /\ UNCHANGED <<adapter, inputs, stdout, i, locals, self, outputs, error, calls, fmtvars,
                   genname>>

\* the second if statement, and the return
ParcellateNative ==
    /\ adapter = "Parcellate"
    /\ pc = "scheme2"
    /\ called' =
         IF inputs.parcellation_scheme = "NativeFreesurfer"
         THEN called \o <<Call("generate_WM_and_GM_mask", inputs),
                          Call("crop_and_move_WM_and_GM", inputs)>>
         ELSE called
    /\ pc' = "idle"
    /\ UNCHANGED <<adapter, inputs, stdout, i, locals, self, outputs, error, calls, fmtvars,
                   genname>>

\* ------------------------------------------------------------------ MRtrix
\* the adapters that build their output name with _gen_fname
FnameAdapters == {"DWIDenoise", "DWIBiasCorrect"}

\* the adapters whose input is a list of files, of which the first counts
MultiInputAdapters == {"DWI2Tensor", "MRMultiply", "MRTransform"}

MrtrixAdapters ==
    FnameAdapters \cup MultiInputAdapters \cup
    {"MRConvert", "Tensor2Vector", "Tensor2FractionalAnisotropy",
     "Tensor2ApparentDiffusion", "GenerateWhiteMatterMask", "Erode", "Threshold",
     "MedianFilter3D"}

\* the input that names the output file
OutNameField(a) ==
    CASE a \in FnameAdapters -> "out_file"
      [] a = "GenerateWhiteMatterMask" -> "out_WMProb_filename"
      [] OTHER -> "out_filename"

\* the input that names the input file or files
InField(a) == IF a \in {"MRMultiply", "MRTransform"} THEN "in_files" ELSE "in_file"

\* the suffix each adapter gives to the name of its input
Suffix(a) ==
    CASE a = "DWIDenoise" -> <<"_denoised">>
      [] a = "DWIBiasCorrect" -> <<"_biascorr">>
      [] a = "MRConvert" -> <<"_mrconvert", ".">>
      [] a = "DWI2Tensor" -> <<"_tensor", ".", "mif">>
      [] a = "Tensor2Vector" -> <<"_vector", ".", "mif">>
      [] a = "Tensor2FractionalAnisotropy" -> <<"_FA", ".", "mif">>
      [] a = "Tensor2ApparentDiffusion" -> <<"_ADC", ".", "mif">>
      [] a = "MRMultiply" -> <<"_MRMult", ".", "mif">>
      [] a = "GenerateWhiteMatterMask" -> <<"_WMProb", ".", "mif">>
      [] a = "Erode" -> <<"_erode", ".", "mif">>
      [] a = "Threshold" -> <<"_thresh", ".", "mif">>
      [] a = "MedianFilter3D" -> <<"_median3D", ".", "mif">>
      [] a = "MRTransform" -> <<"_MRTransform", ".", "mif">>

InFiles ==
    {<<"dwi", ".", "mif">>,
     <<"/", "data", "/", "dwi", ".", "nii", ".", "gz">>,
     <<"sub", "/", "b0", ".", "1", ".", "nii">>}

OutNames == {None, <<"out", ".", "mif">>, <<"/", "res", "/", "fa", ".", "mif">>}

\* the inputs of an MRtrix adapter: the input file (or files), the output
\* name, which may be undefined, for MRConvert the extension and an in_file
\* that is undefined when in_dir is given in its place, and for DWIDenoise
\* and DWIBiasCorrect the name of the second output
MrtrixInputs(a) ==
    LET ins == CASE a \in MultiInputAdapters ->
                      UNION {[1..n -> InFiles] : n \in 1..MaxSources}
                 [] a = "MRConvert" -> InFiles \cup {None}
                 [] OTHER -> InFiles
        named == {(InField(a) :> f) @@ (OutNameField(a) :> o) : f \in ins, o \in OutNames}
    IN  IF a = "MRConvert"
        THEN {r @@ [extension |-> e] : r \in named, e \in {"mif", "nii"}}
        ELSE IF a \in FnameAdapters
        THEN {r @@ (ExtraField(a) :> x) : r \in named, x \in OutNames}
        ELSE named

\* the file the output name derives from
FirstInput(a, inp) ==
    IF a \in MultiInputAdapters THEN inp[InField(a)][1] ELSE inp[InField(a)]

\* nipype.utils.filemanip.fname_presuffix with use_ext=False and a newpath
fname_presuffix(fname, suffix, newpath) ==
    PathJoin(AbsPath(newpath), split_filename(fname)[2] \o suffix)

\* _gen_fname of DWIDenoise and DWIBiasCorrect, called with a suffix only:
\* cwd is os.getcwd() and the extension '.mif' is added to the suffix
GenFname(basename, suffix) == fname_presuffix(basename, suffix \o <<".", "mif">>, Cwd)

\* mutant: the generated name stays in the directory of the input file
GenOutfilename_InDir(a, inp) ==
    CASE a \in FnameAdapters ->
           AbsPath(IF ~isdefined(inp.out_file) /\ isdefined(inp.in_file)
                   THEN GenFname(inp.in_file, Suffix(a))
                   ELSE inp.out_file)
      [] a = "MRConvert" ->
           IF isdefined(inp.out_filename) THEN inp.out_filename
           ELSE PathJoin(split_filename(inp.in_file)[1],
                         split_filename(inp.in_file)[2] \o Suffix(a) \o <<inp.extension>>)
      [] OTHER ->
           PathJoin(split_filename(FirstInput(a, inp))[1],
                    split_filename(FirstInput(a, inp))[2] \o Suffix(a))

\* _gen_outfilename
GenOutfilename(a, inp) ==
    CASE a \in FnameAdapters ->
           AbsPath(IF ~isdefined(inp.out_file) /\ isdefined(inp.in_file)
                   THEN GenFname(inp.in_file, Suffix(a))
                   ELSE inp.out_file)
      [] a = "MRConvert" ->
           IF isdefined(inp.out_filename) THEN inp.out_filename
           ELSE split_filename(inp.in_file)[2] \o Suffix(a) \o <<inp.extension>>
      [] OTHER -> split_filename(FirstInput(a, inp))[2] \o Suffix(a)

\* split_filename gets an undefined in_file and raises: only MRConvert can
\* be without in_file, and its _gen_outfilename splits it in its first line
GenOutfilenameRaises(a, inp) == a = "MRConvert" /\ ~isdefined(inp.in_file)

\* the value _list_outputs reports
Reported(a, inp) ==
    CASE a \in FnameAdapters -> GenOutfilename(a, inp)
      [] a \in {"DWI2Tensor", "Tensor2FractionalAnisotropy"} ->
           IF ~isdefined(inp.out_filename) THEN AbsPath(GenOutfilename(a, inp))
           ELSE AbsPath(inp.out_filename)
      [] OTHER -> AbsPath(GenOutfilename(a, inp))

\* the suffix of the second output of DWIDenoise and DWIBiasCorrect
ExtraSuffix(a) == IF a = "DWIDenoise" THEN <<"_noisemap">> ELSE <<"_biasfield">>

\* the record _list_outputs returns: the output file and, for DWIDenoise and
\* DWIBiasCorrect with out_noisemap / out_bias set, the second output
ListedOutputs(a, inp) ==
    IF a \in FnameAdapters
    THEN (OutSlot(a) :> Reported(a, inp)) @@
         (ExtraField(a) :>
            IF isdefined(inp[ExtraField(a)]) /\ Truthy(inp[ExtraField(a)])
            THEN GenFname(inp.in_file, ExtraSuffix(a))
            ELSE None)
    ELSE (OutSlot(a) :> Reported(a, inp))

\* _gen_filename, which _parse_inputs calls for an undefined genfile field
GenFilename(a, inp, name) ==
    IF name = OutNameField(a) THEN GenOutfilename(a, inp) ELSE None

\* _list_outputs of an MRtrix adapter
MrtrixListOutputs ==
    /\ adapter \in MrtrixAdapters
    /\ ~GenOutfilenameRaises(adapter, inputs)
    /\ outputs' = ListedOutputs(adapter, inputs)
    /\ error' = "none"
    /\ UNCHANGED <<adapter, inputs, stdout, pc, i, locals, self, calls, fmtvars, othervars>>

\* _gen_filename of an MRtrix adapter, for the output name or another field
MrtrixGenFilename ==
    /\ adapter \in MrtrixAdapters
    /\ ~GenOutfilenameRaises(adapter, inputs)
    /\ \E name \in {OutNameField(adapter), InField(adapter)} :
         genname' = GenFilename(adapter, inputs, name)
    /\ error' = "none"
    /\ UNCHANGED <<adapter, inputs, stdout, pc, i, locals, self, outputs, calls, fmtvars,
                   called>>

\* _list_outputs of MRConvert without in_file: the exception leaves it
MrtrixRaise ==
    /\ adapter \in MrtrixAdapters
    /\ GenOutfilenameRaises(adapter, inputs)
    /\ error' = "AttributeError"
    /\ UNCHANGED <<adapter, inputs, stdout, pc, i, locals, self, outputs, calls, fmtvars,
                   othervars>>

Next ==
    \/ RunFails
    \/ ParseStart
    \/ ParseLine
    \/ ParseRaise
    \/ NiiAssign
    \/ NiixAssign
    \/ NiixUnpackRaise
    \/ ListOutputs

Spec == Init /\ [][Next]_vars

\* runs between which the user changes boolean inputs
NextTwice == Next \/ SetInput

SpecTwice == InitTwice /\ [][NextTwice]_vars

\* formatting of the boolean flags of a configured instance
InitFormat ==
    /\ Fresh
    /\ inputs \in FlagInputs(adapter)
    /\ stdout = <<NiiEmpty>>

NextFormat == FormatArg

SpecFormat == InitFormat /\ [][NextFormat]_vars

\* assembly of the command line of a configured Dcm2niix
InitCmdline ==
    /\ Fresh
    /\ adapter = "Dcm2niix"
    /\ inputs \in CmdInputs
    /\ stdout = <<NiixOther>>

NextCmdline == Cmdline \/ CmdlineRaise

SpecCmdline == InitCmdline /\ [][NextCmdline]_vars

\* runs of a configured Parcellate
InitParcellate ==
    /\ FreshOf({"Parcellate"})
    /\ inputs \in ParcellateInputs
    /\ stdout = <<>>

NextParcellate == SetScheme \/ ParcellateRun \/ ParcellateLausanne \/ ParcellateNative

SpecParcellate == InitParcellate /\ [][NextParcellate]_vars

\* output names of a configured MRtrix adapter
InitMrtrix ==
    /\ FreshOf(MrtrixAdapters)
    /\ inputs \in MrtrixInputs(adapter)
    /\ stdout = <<>>

NextMrtrix == MrtrixListOutputs \/ MrtrixGenFilename \/ MrtrixRaise

SpecMrtrix == InitMrtrix /\ [][NextMrtrix]_vars

\* ================================================================== claims
\* a step of the loop of _parse_stdout on the line at position i
Iteration(a) == adapter = a /\ pc = "parse" /\ i <= Len(stdout)

\* the last finished call of _parse_stdout
LastCall == calls[Len(calls)]

\* the five result sequences of Dcm2nii do not change in a step
FiveUnchanged ==
    /\ files' = files
    /\ reoriented_files' = reoriented_files
    /\ reoriented_and_cropped_files' = reoriented_and_cropped_files
    /\ bvecs' = bvecs
    /\ bvals' = bvals

\* no marker of Dcm2nii on the line
NoNiiMarker(line) ==
    /\ \A m \in {"Saving ", "GZip...", "Number of diffusion directions ",
                 "Reorienting as ", "Cropping NIfTI/Analyze image "} : ~StartsWith(line, m)
    /\ \A k \in 1..Len(line) : line[k] # "-->"

NiiMarkerFree == adapter = "Dcm2nii" /\ \A k \in 1..Len(stdout) : NoNiiMarker(stdout[k])

\* nothing has been raised but, possibly, the failure of the base run step
NothingRaised == error \in {"none", "ExecutionError"}

\* C1: Dcm2nii._parse_stdout on a stdout without any recognized marker never
\* raises, keeps all five sequences empty while it scans, and returns five
\* empty sequences.
C1_NoMarkerAllEmpty ==
    NiiMarkerFree =>
        /\ NothingRaised
        /\ files = <<>> /\ reoriented_files = <<>> /\ reoriented_and_cropped_files = <<>>
        /\ bvecs = <<>> /\ bvals = <<>>
        /\ (pc = "parse" => i <= Len(stdout) + 1)
        /\ (calls # <<>> =>
              LastCall.error = "none" /\ LastCall.ret = <<<<>>, <<>>, <<>>, <<>>, <<>>>>)

\* a marker-free stdout of several lines has been parsed to its end
C1_Witness ==
    /\ NiiMarkerFree
    /\ Len(stdout) >= 2
    /\ pc = "ran"
    /\ LastCall.ret = <<<<>>, <<>>, <<>>, <<>>, <<>>>>

\* no marker of Dcm2niix on the line
NoNiixMarker(line) ==
    /\ ~StartsWith(line, "Convert ")
    /\ \A k \in 1..Len(line) : line[k] \notin {"DTI gradients", "DTI gradient directions"}

NiixMarkerFree == adapter = "Dcm2niix" /\ \A k \in 1..Len(stdout) : NoNiixMarker(stdout[k])

\* C2: once Dcm2niix has run on a stdout without any recognized marker, the
\* run has not failed and every output category is an empty sequence
\* (converted files, bvecs, bvals, and bids when bids_format is enabled).
C2_NoMarkerRunSucceeds ==
    (NiixMarkerFree /\ calls # <<>> /\ pc # "parse") =>
        /\ NothingRaised
        /\ self.output_files = <<>>
        /\ self.bvecs = <<>>
        /\ self.bvals = <<>>
        /\ (inputs.bids_format => self.bids = <<>>)

\* the path P with its extension taken off and ext put in its place: the
\* extension is ".nii.gz" / ".tar.gz" or starts at the last "." of the basename
ReplaceExt(P, ext) ==
    LET n == Len(P)
        base == LastSlash(P)
        two == /\ n - base > 4
               /\ SubSeq(P, n - 3, n) \in {<<".", "nii", ".", "gz">>, <<".", "tar", ".", "gz">>}
        dots == {k \in (base + 2)..n : P[k] = "." /\ \E j \in (base + 1)..(k - 1) : P[j] # "."}
        cut == IF two THEN n - 3
               ELSE IF dots = {} THEN n + 1
               ELSE CHOOSE d \in dots : \A e \in dots : e <= d
    IN  SubSeq(P, 1, cut - 1) \o <<".", ext>>

\* C3: a non-skipped "Number of diffusion directions " line appends exactly
\* one bvec and one bval entry, named after the most recently recorded
\* converted file with its extension replaced, and appends nothing when no
\* converted file has been recorded yet.
C3_GradientCompanions ==
    [][(Iteration("Dcm2nii") /\ ~skip
           /\ StartsWith(stdout[i], "Number of diffusion directions "))
        => /\ pc' = "parse" /\ i' = i + 1
           /\ files' = files
           /\ reoriented_files' = reoriented_files
           /\ reoriented_and_cropped_files' = reoriented_and_cropped_files
           /\ IF files # <<>>
              THEN /\ bvecs' = Append(bvecs, ReplaceExt(files[Len(files)], "bvec"))
                   /\ bvals' = Append(bvals, ReplaceExt(files[Len(files)], "bval"))
              ELSE bvecs' = bvecs /\ bvals' = bvals]_vars

\* "Saving /tmp/out/img.nii" then "Number of diffusion directions 32" parsed
C3_Witness ==
    /\ adapter = "Dcm2nii" /\ pc = "parse" /\ i = 3
    /\ stdout[1] = NiiSavingAbs /\ stdout[2] = NiiNumDirs
    /\ files = <<<<"/", "tmp", "/", "out", "/", "img", ".", "nii">>>>
    /\ bvecs = <<<<"/", "tmp", "/", "out", "/", "img", ".", "bvec">>>>
    /\ bvals = <<<<"/", "tmp", "/", "out", "/", "img", ".", "bval">>>>

\* C4 as stated: every non-skipped "Reorienting as <path>" line appends <path>
\* to the reoriented files and nothing else.
C4_AsStated ==
    [][(Iteration("Dcm2nii") /\ ~skip /\ StartsWith(stdout[i], "Reorienting as "))
        => /\ reoriented_files' = Append(reoriented_files, After(stdout[i], 1))
           /\ files' = files]_vars

\* the line before position i was a "Reorienting as " line without "-->"
AfterReorient ==
    /\ i > 1
    /\ StartsWith(stdout[i - 1], "Reorienting as ")
    /\ ~Contains(stdout[i - 1], "-->")

\* C4 (amended): a non-skipped "Reorienting as <path>" line that contains no
\* "-->" appends exactly <path> to the reoriented files and nothing to the
\* other four sequences, and the line right after it, whatever it is, adds
\* nothing to any of the five sequences and does not fail.
C4_ReorientThenSkip ==
    [][/\ (Iteration("Dcm2nii") /\ ~skip /\ StartsWith(stdout[i], "Reorienting as ")
              /\ ~Contains(stdout[i], "-->"))
          => /\ pc' = "parse" /\ i' = i + 1
             /\ reoriented_files' = Append(reoriented_files, After(stdout[i], 1))
             /\ files' = files
             /\ reoriented_and_cropped_files' = reoriented_and_cropped_files
             /\ bvecs' = bvecs /\ bvals' = bvals
             /\ skip'
       /\ (Iteration("Dcm2nii") /\ skip /\ AfterReorient)
          => /\ pc' = "parse" /\ i' = i + 1
             /\ FiveUnchanged]_vars

\* "Reorienting as /tmp/out/img_reo" followed by a "Saving " line, both parsed
C4_Witness ==
    /\ adapter = "Dcm2nii" /\ pc = "parse" /\ i = 3
    /\ stdout[1] = NiiReorient /\ stdout[2] = NiiSavingAbs
    /\ reoriented_files = <<<<"/", "tmp", "/", "out", "/", "img_reo">>>>
    /\ files = <<>> /\ bvecs = <<>> /\ bvals = <<>>
    /\ reoriented_and_cropped_files = <<>>

\* the directory Dcm2niix resolves names against
NiixDir == IF inputs.output_dir = None THEN Cwd ELSE inputs.output_dir

\* a "Convert " line from which a path fragment can be extracted
ConvertWithPath(line) == StartsWith(line, "Convert ") /\ PathSearch(line) # <<0, 0>>

\* C5: a "Convert " line with path fragment F appends
\* abspath(join(output_dir, F)) + ".nii" to the converted files when compress
\* is "n" and + ".nii.gz" when it is "y" or "i", output_dir being the current
\* directory when it is not set; "Convert SUBJ/img" with output_dir /data/out
\* and compress "n" gives /data/out/SUBJ/img.nii.
C5_ConvertedPath ==
    [][(Iteration("Dcm2niix") /\ ConvertWithPath(stdout[i]))
        => LET F == ConvertFname(stdout[i])
               path == AbsPath(PathJoin(NiixDir, F))
           IN  /\ pc' = "parse" /\ i' = i + 1
               /\ inputs.compress = "n" => files' = Append(files, path \o <<".", "nii">>)
               /\ inputs.compress \in {"y", "i"}
                    => files' = Append(files, path \o <<".", "nii", ".", "gz">>)
               /\ (stdout[i] = NiixConvertImg /\ inputs.compress = "n"
                      /\ inputs.output_dir = <<"/", "data", "/", "out">>)
                    => files' = Append(files,
                         <<"/", "data", "/", "out", "/", "SUBJ", "/", "img", ".", "nii">>)
               /\ (stdout[i] = NiixConvertImg /\ inputs.compress = "i"
                      /\ inputs.output_dir \in {None, <<".">>})
                    => files' = Append(files,
                         <<"/", "cwd", "/", "SUBJ", "/", "img", ".", "nii", ".", "gz">>)]_vars

\* "Convert SUBJ/img" parsed with output_dir /data/out and compress "n"
C5_Witness ==
    /\ adapter = "Dcm2niix" /\ pc = "parse" /\ i = 2
    /\ stdout[1] = NiixConvertImg
    /\ inputs.compress = "n" /\ inputs.output_dir = <<"/", "data", "/", "out">>
    /\ files = <<<<"/", "data", "/", "out", "/", "SUBJ", "/", "img", ".", "nii">>>>

\* C6: a line with "DTI gradients" or "DTI gradient directions" that does not
\* start with "Convert " sets the pending flag and adds nothing; a "Convert "
\* line with path fragment F adds abspath(join(output_dir, F)) + ".bvec" and
\* + ".bval" exactly when the flag is set, and leaves the flag cleared; no
\* other line changes the flag or the companions.
C6_PendingGradients ==
    [][Iteration("Dcm2niix") =>
        LET line == stdout[i]
            path == AbsPath(PathJoin(NiixDir, ConvertFname(line)))
        IN  /\ (~StartsWith(line, "Convert ")
                  /\ (Contains(line, "DTI gradients")
                        \/ Contains(line, "DTI gradient directions")))
               => find_b' /\ bvecs' = bvecs /\ bvals' = bvals /\ files' = files
            /\ (ConvertWithPath(line) /\ find_b)
               => /\ bvecs' = Append(bvecs, path \o <<".", "bvec">>)
                  /\ bvals' = Append(bvals, path \o <<".", "bval">>)
                  /\ ~find_b'
            /\ (ConvertWithPath(line) /\ ~find_b)
               => bvecs' = bvecs /\ bvals' = bvals /\ ~find_b'
            /\ NoNiixMarker(line)
               => find_b' = find_b /\ bvecs' = bvecs /\ bvals' = bvals]_vars

\* a gradient line, then the DWI series, then another series: one pair only
C6_Witness ==
    /\ adapter = "Dcm2niix" /\ pc = "parse" /\ i = 4
    /\ stdout[1] = NiixDTIDirs /\ stdout[2] = NiixConvertDwi /\ stdout[3] = NiixConvertImg
    /\ inputs.output_dir = <<"/", "data", "/", "out">>
    /\ Len(files) = 2
    /\ bvecs = <<<<"/", "data", "/", "out", "/", "SUBJ", "/", "dwi", ".", "bvec">>>>
    /\ bvals = <<<<"/", "data", "/", "out", "/", "SUBJ", "/", "dwi", ".", "bval">>>>
    /\ ~find_b

\* two calls of _parse_stdout have finished on this instance
TwoCalls == Len(calls) = 2

SameResult == calls[1].ret = calls[2].ret /\ calls[1].error = calls[2].error

\* C7: two successive calls of _parse_stdout on the same instance, with the
\* same stdout and unchanged inputs, end the same way and return the same
\* sequences with the same entries in the same order.
C7_Idempotent == (TwoCalls /\ calls[1].inputs = calls[2].inputs) => SameResult

\* a stdout that yields entries has been parsed twice with the same inputs
C7_Witness ==
    /\ TwoCalls
    /\ calls[1].inputs = calls[2].inputs
    /\ calls[2].error = "none"
    /\ calls[2].ret[1] # <<>>
    /\ pc = "ran"

\* the output directory and the compression mode of two calls agree
SameDirAndCompress ==
    /\ calls[1].inputs.output_dir = calls[2].inputs.output_dir
    /\ adapter = "Dcm2niix" => calls[1].inputs.compress = calls[2].inputs.compress

\* C8 as stated: two parser runs with the same stdout, output directory and
\* compression mode return the same result whatever the other inputs are.
C8_AsStated == (TwoCalls /\ SameDirAndCompress) => SameResult

\* C8 (amended): two parser runs with the same stdout, output directory,
\* compression mode and, for Dcm2niix, the same bids_format return the same
\* result, whatever the other inputs (gzip_output, verbose) are.
C8_DeterminedByDirCompressBids ==
    (/\ TwoCalls
     /\ SameDirAndCompress
     /\ adapter = "Dcm2niix" => calls[1].inputs.bids_format = calls[2].inputs.bids_format)
    => SameResult

\* two runs that differ in verbose only and return entries
C8_Witness ==
    /\ adapter = "Dcm2niix"
    /\ TwoCalls
    /\ calls[1].inputs.verbose # calls[2].inputs.verbose
    /\ calls[1].inputs.bids_format = calls[2].inputs.bids_format
    /\ calls[2].error = "none"
    /\ calls[2].ret[1] # <<>>

\* C9 as stated: with bids_format enabled every "Convert " line appends one
\* sidecar path, the converted file's path with ".json" for its extension, so
\* bids and the converted files have the same length and matching bases; with
\* bids_format disabled no sidecar is recorded and the bids output stays unset.
C9_AsStated ==
    [][/\ (Iteration("Dcm2niix") /\ StartsWith(stdout[i], "Convert ") /\ inputs.bids_format)
          => /\ Len(bids') = Len(bids) + 1
             /\ Len(files') = Len(files) + 1
             /\ bids'[Len(bids')] = ReplaceExt(files'[Len(files')], "json")
       /\ (adapter = "Dcm2niix" /\ pc = "parse" /\ inputs.bids_format)
          => Len(bids) = Len(files)
       /\ (adapter = "Dcm2niix" /\ ~inputs.bids_format)
          => bids = <<>> /\ outputs.bids = Undefined]_vars

\* C10: every defined boolean flag of Dcm2nii and Dcm2niix is emitted as
\* "<flag> y" when it is true and as "<flag> n" when it is false; it is never
\* left out.
C10_BooleanFlags ==
    \A k \in 1..Len(formatted) :
        LET f == formatted[k]
        IN  /\ f.arg # None
            /\ f.val => f.arg = ArgStr(f.opt) \o <<" ", "y">>
            /\ ~f.val => f.arg = ArgStr(f.opt) \o <<" ", "n">>

\* gzip_output is false and has been formatted as "-g n"
C10_Witness ==
    /\ adapter = "Dcm2nii"
    /\ formatted # <<>>
    /\ formatted[1].opt = "gzip_output"
    /\ ~formatted[1].val
    /\ formatted[1].arg = <<"-g", " ", "n">>

\* the position of the first blank of a text, or one past its end
FirstBlank(s) ==
    IF Contains(s, " ")
    THEN CHOOSE k \in 1..Len(s) : s[k] = " " /\ \A j \in 1..(k - 1) : s[j] # " "
    ELSE Len(s) + 1

\* text.split(): the words between the blanks
RECURSIVE Words(_)
Words(s) ==
    IF s = <<>> THEN <<>>
    ELSE (IF FirstBlank(s) > 1 THEN <<SubSeq(s, 1, FirstBlank(s) - 1)>> ELSE <<>>)
         \o Words(After(s, FirstBlank(s)))

CmdFlags == {"-b", "-f", "-m", "-o", "-s", "-t", "-v", "-x", "-z"}

YesNo(b) == IF b THEN <<"y">> ELSE <<"n">>

\* the value each flag of Dcm2niix stands for
FlagValue(flag) ==
    CASE flag = "-b" -> YesNo(inputs.bids_format)
      [] flag = "-f" -> inputs.out_filename
      [] flag = "-m" -> YesNo(inputs.merge_imgs)
      [] flag = "-o" -> IF inputs.output_dir = None THEN Cwd ELSE inputs.output_dir
      [] flag = "-s" -> YesNo(inputs.single_file)
      [] flag = "-t" -> YesNo(inputs.has_private)
      [] flag = "-v" -> YesNo(inputs.verbose)
      [] flag = "-x" -> YesNo(inputs.crop)
      [] flag = "-z" -> <<inputs.compress>>

CmdlineOfSourceNames ==
    adapter = "Dcm2niix" /\ cmdline # <<>> /\ inputs.source_names # Undefined

\* C11: the command line of Dcm2niix with source_names set has exactly one
\* source argument, the first file of source_names, as its last word, and
\* each of the flags -b -f -m -o -s -t -v -x -z exactly once, followed by
\* its value
C11_OneSourceLast ==
    CmdlineOfSourceNames =>
      LET w == Words(cmdline)
      IN  /\ w[Len(w)] = inputs.source_names[1]
          /\ Cardinality({k \in 1..Len(w) : w[k] \in SourceFiles}) = 1
          /\ \A f \in CmdFlags :
                \E k \in 1..(Len(w) - 1) :
                   /\ w[k] = <<f>>
                   /\ w[k + 1] = FlagValue(f)
                   /\ \A j \in 1..Len(w) : w[j] = <<f>> => j = k

\* the example of the docstring: two files, and the command line names the
\* first one only
C11_Witness ==
    /\ CmdlineOfSourceNames
    /\ inputs.source_names = <<<<"functional_1", ".", "dcm">>, <<"functional_2", ".", "dcm">>>>
    /\ cmdline = <<"dcm2niix", " ", "-b", " ", "y", " ", "-z", " ", "i", " ", "-x", " ", "n",
                   " ", "-t", " ", "n", " ", "-m", " ", "n", " ", "-f", " ", "%t%p", " ",
                   "-o", " ", ".", " ", "-s", " ", "y", " ", "-v", " ", "n", " ",
                   "functional_1", ".", "dcm">>

\* the step in which the base run step fails
RunFailure == pc = "idle" /\ error' = "ExecutionError"

\* C12: the stored output sequences change only in the step that follows
\* the return of _parse_stdout, after the base run step; when the base run
\* step fails, _parse_stdout is not started and the stored sequences, the
\* listed outputs and the record of parser calls stay as they were
C12_AssignedOnlyAfterRun ==
    [][/\ (self' # self => pc = "parse" /\ i > Len(stdout) /\ pc' = "ran")
       /\ (RunFailure => /\ pc' = "idle"
                         /\ self' = self
                         /\ outputs' = outputs
                         /\ calls' = calls
                         /\ locals' = locals)]_vars

\* a run has stored a converted file, and then a later run has failed: the
\* stored file is still there
C12_Witness ==
    /\ error = "ExecutionError"
    /\ pc = "idle"
    /\ self.output_files # NoAttr
    /\ self.output_files # <<>>
    /\ outputs.converted_files = self.output_files

\* the calls of the functions named, each with (subject_id, subjects_dir)
CallsOf(names) ==
    [k \in 1..Len(names) |->
       [fn |-> names[k], subject_id |-> inputs.subject_id,
        subjects_dir |-> inputs.subjects_dir]]

LausanneCalls ==
    CallsOf(<<"create_annot_label", "create_roi", "create_wm_mask", "crop_and_move_datasets">>)

NativeCalls == CallsOf(<<"generate_WM_and_GM_mask", "crop_and_move_WM_and_GM">>)

\* C13: when Parcellate._run_interface returns it has made exactly the four
\* calls create_annot_label, create_roi, create_wm_mask,
\* crop_and_move_datasets (scheme Lausanne2008) or exactly the two calls
\* generate_WM_and_GM_mask, crop_and_move_WM_and_GM (scheme NativeFreesurfer),
\* in that order, each with (subject_id, subjects_dir)
C13_OneCallSequence ==
    [][(adapter = "Parcellate" /\ pc = "scheme2" /\ pc' = "idle") =>
         /\ inputs.parcellation_scheme = "Lausanne2008" => called' = LausanneCalls
         /\ inputs.parcellation_scheme = "NativeFreesurfer" => called' = NativeCalls
         /\ called' \in {LausanneCalls, NativeCalls}]_vars

\* a run with the scheme NativeFreesurfer has returned: the two calls of
\* that scheme only
C13_Witness ==
    /\ adapter = "Parcellate"
    /\ pc = "idle"
    /\ inputs.parcellation_scheme = "NativeFreesurfer"
    /\ inputs.subjects_dir = <<"/", "fs">>
    /\ called = NativeCalls

\* the name of a file without its directory and its extension
Stem(f) ==
    CASE f = <<"dwi", ".", "mif">> -> <<"dwi">>
      [] f = <<"/", "data", "/", "dwi", ".", "nii", ".", "gz">> -> <<"dwi">>
      [] f = <<"sub", "/", "b0", ".", "1", ".", "nii">> -> <<"b0", ".", "1">>

\* the suffix of the default output name of each MRtrix adapter
DefaultSuffix ==
    CASE adapter = "DWI2Tensor" -> <<"_tensor", ".", "mif">>
      [] adapter = "Tensor2Vector" -> <<"_vector", ".", "mif">>
      [] adapter = "Tensor2FractionalAnisotropy" -> <<"_FA", ".", "mif">>
      [] adapter = "Tensor2ApparentDiffusion" -> <<"_ADC", ".", "mif">>
      [] adapter = "MRMultiply" -> <<"_MRMult", ".", "mif">>
      [] adapter = "GenerateWhiteMatterMask" -> <<"_WMProb", ".", "mif">>
      [] adapter = "Erode" -> <<"_erode", ".", "mif">>
      [] adapter = "Threshold" -> <<"_thresh", ".", "mif">>
      [] adapter = "MedianFilter3D" -> <<"_median3D", ".", "mif">>
      [] adapter = "MRTransform" -> <<"_MRTransform", ".", "mif">>
      [] adapter = "MRConvert" -> <<"_mrconvert", ".", inputs.extension>>
      [] adapter = "DWIDenoise" -> <<"_denoised", ".", "mif">>
      [] adapter = "DWIBiasCorrect" -> <<"_biascorr", ".", "mif">>

\* the input file of the adapter, the first one where it takes several
TheInput ==
    IF adapter \in {"DWI2Tensor", "MRMultiply", "MRTransform"}
    THEN inputs[InField(adapter)][1]
    ELSE inputs[InField(adapter)]

\* the default output file: in the working directory, stem and suffix
DefaultOutput == Cwd \o <<"/">> \o Stem(TheInput) \o DefaultSuffix

OutNameUnset == adapter \in MrtrixAdapters /\ inputs[OutNameField(adapter)] = None

\* C14: with the output name not set, an MRtrix adapter reports the file
\* <working directory>/<stem of the input file><suffix of the adapter>, and
\* the name _gen_filename generates for the command line denotes that file
C14_DefaultOutputName ==
    OutNameUnset =>
      /\ outputs[OutSlot(adapter)] # None => outputs[OutSlot(adapter)] = DefaultOutput
      /\ genname # None => AbsPath(genname) = DefaultOutput

\* DWI2Tensor with two input files and no output name: the reported tensor
\* and the generated name derive from the first input file
C14_Witness ==
    /\ adapter = "DWI2Tensor"
    /\ inputs.out_filename = None
    /\ Len(inputs.in_file) = 2
    /\ inputs.in_file[1] = <<"/", "data", "/", "dwi", ".", "nii", ".", "gz">>
    /\ outputs.tensor = <<"/", "cwd", "/", "dwi", "_tensor", ".", "mif">>
    /\ genname = <<"dwi", "_tensor", ".", "mif">>

IsAbs(p) == Len(p) >= 1 /\ p[1] = "/"

\* C15: every path listed in an output of Dcm2nii or Dcm2niix is absolute
C15_AllAbsolute ==
    \A f \in DOMAIN outputs :
       outputs[f] # Undefined => \A k \in 1..Len(outputs[f]) : IsAbs(outputs[f][k])

\* C16: a line that Dcm2nii._parse_stdout meets with the skip flag set is
\* not classified: it cannot fail, adds nothing to any of the five
\* sequences, leaves last_added_file as it is and clears the flag, so that
\* the flag is never set on two lines in a row
C16_SkipDiscipline ==
    [][(Iteration("Dcm2nii") /\ skip) =>
         /\ pc' = "parse" /\ i' = i + 1
         /\ FiveUnchanged
         /\ last_added_file' = last_added_file
         /\ ~skip']_vars

\* "Reorienting as ", then a skipped "Cropping " line, then a "Saving " line
\* that is classified as usual
C16_Witness ==
    /\ adapter = "Dcm2nii" /\ pc = "parse" /\ i = 4
    /\ stdout = <<NiiReorient, NiiCrop, NiiSavingAbs>>
    /\ reoriented_files = <<<<"/", "tmp", "/", "out", "/", "img_reo">>>>
    /\ reoriented_and_cropped_files = <<>>
    /\ files = <<<<"/", "tmp", "/", "out", "/", "img", ".", "nii">>>>
    /\ ~skip

CropMarker == "Cropping NIfTI/Analyze image "

\* <dir>/c<name> for the path <dir>/<name>
PrefixedWithC(P) == SubSeq(P, 1, LastSlash(P)) \o <<"c">> \o After(P, LastSlash(P))

\* the line before position i was a "Cropping " line without "-->"
AfterCrop ==
    /\ i > 1
    /\ StartsWith(stdout[i - 1], CropMarker)
    /\ ~Contains(stdout[i - 1], "-->")

\* C17 as stated: every non-skipped "Cropping NIfTI/Analyze image " line
\* appends <dir>/c<name> to the cropped files and nothing to the other
\* sequences
C17_AsStated ==
    [][(Iteration("Dcm2nii") /\ ~skip /\ StartsWith(stdout[i], CropMarker))
          => /\ reoriented_and_cropped_files' =
                  Append(reoriented_and_cropped_files, PrefixedWithC(After(stdout[i], 1)))
             /\ files' = files]_vars

\* C17 (amended): a non-skipped "Cropping NIfTI/Analyze image <dir>/<name>"
\* line that contains no "-->" appends exactly <dir>/c<name> to the cropped
\* files and nothing to the other four sequences, and the line right after
\* it adds nothing to any sequence and clears the skip flag
C17_CropThenSkip ==
    [][/\ (Iteration("Dcm2nii") /\ ~skip /\ StartsWith(stdout[i], CropMarker)
              /\ ~Contains(stdout[i], "-->"))
          => /\ pc' = "parse" /\ i' = i + 1
             /\ reoriented_and_cropped_files' =
                  Append(reoriented_and_cropped_files, PrefixedWithC(After(stdout[i], 1)))
             /\ files' = files
             /\ reoriented_files' = reoriented_files
             /\ bvecs' = bvecs /\ bvals' = bvals
             /\ skip'
       /\ (Iteration("Dcm2nii") /\ skip /\ AfterCrop)
          => /\ pc' = "parse" /\ i' = i + 1
             /\ FiveUnchanged
             /\ ~skip']_vars

\* "Cropping NIfTI/Analyze image /tmp/out/img.nii", then an ignored
\* "Saving " line
C17_Witness ==
    /\ adapter = "Dcm2nii" /\ pc = "parse" /\ i = 3
    /\ stdout[1] = NiiCrop /\ stdout[2] = NiiSavingAbs
    /\ reoriented_and_cropped_files = <<<<"/", "tmp", "/", "out", "/", "c", "img", ".", "nii">>>>
    /\ files = <<>> /\ reoriented_files = <<>> /\ bvecs = <<>> /\ bvals = <<>>
    /\ ~skip

\* a gradient-trigger line of Dcm2niix
IsTrigger(line) ==
    /\ ~StartsWith(line, "Convert ")
    /\ Contains(line, "DTI gradients") \/ Contains(line, "DTI gradient directions")

IsConvert(line) == StartsWith(line, "Convert ")

\* the file a "Convert " line names, resolved against the output directory
ConvertedBase(line) == AbsPath(PathJoin(NiixDir, ConvertFname(line)))

\* the parser of Dcm2niix has returned and its results are stored
NiixParsed == adapter = "Dcm2niix" /\ pc = "ran"

InSeq(x, seq) == \E n \in 1..Len(seq) : seq[n] = x

\* C18 as stated: a trigger line after a "Convert " line yields the
\* companions of that preceding "Convert " line
C18_AsStated ==
    NiixParsed =>
      \A k \in 1..Len(stdout) : \A j \in 1..(k - 1) :
         (/\ IsTrigger(stdout[k])
          /\ IsConvert(stdout[j])
          /\ \A m \in (j + 1)..(k - 1) : ~IsConvert(stdout[m]))
         => /\ InSeq(ConvertedBase(stdout[j]) \o <<".", "bvec">>, bvecs)
            /\ InSeq(ConvertedBase(stdout[j]) \o <<".", "bval">>, bvals)

\* the "Convert " line at position j comes after a trigger line, with no
\* other "Convert " line between the two
Triggered(j) ==
    /\ IsConvert(stdout[j])
    /\ \E k \in 1..(j - 1) :
         IsTrigger(stdout[k]) /\ \A m \in (k + 1)..(j - 1) : ~IsConvert(stdout[m])

\* the lines parsed so far in the current call of _parse_stdout
Parsed == i - 1

TriggeredLines == SelectSeq([j \in 1..Parsed |-> j], Triggered)

\* C18 (amended): at every point of the scan the companions recorded are
\* those of the "Convert " lines parsed as the first "Convert " line after
\* a trigger line, one pair for each such line in the order of the lines;
\* a trigger line yields nothing for the "Convert " line before it, and
\* nothing at all when no "Convert " line follows
C18_NextConvert ==
    adapter = "Dcm2niix" =>
      /\ bvecs = [n \in 1..Len(TriggeredLines) |->
                    ConvertedBase(stdout[TriggeredLines[n]]) \o <<".", "bvec">>]
      /\ bvals = [n \in 1..Len(TriggeredLines) |->
                    ConvertedBase(stdout[TriggeredLines[n]]) \o <<".", "bval">>]

\* a trigger line between two "Convert " lines: the companions are those
\* of the second
C18_Witness ==
    /\ NiixParsed
    /\ stdout = <<NiixConvertImg, NiixDTI, NiixConvertDwi>>
    /\ inputs.output_dir = <<"/", "data", "/", "out">>
    /\ bvecs = <<<<"/", "data", "/", "out", "/", "SUBJ", "/", "dwi", ".", "bvec">>>>
    /\ bvals = <<<<"/", "data", "/", "out", "/", "SUBJ", "/", "dwi", ".", "bval">>>>

\* the text after the last "--> " of a line, empty when there is none
AfterLastArrow(line) ==
    LET at == {k \in 1..(Len(line) - 1) : line[k] = "-->" /\ line[k + 1] = " "}
    IN  IF at = {} THEN <<>>
        ELSE After(line, (CHOOSE k \in at : \A m \in at : m <= k) + 1)

\* the converted file of a line of Dcm2nii by the order of the tests:
\* "Saving ", "GZip...", "Number of diffusion directions ", "-->"; empty
\* when the line yields none
FirstMatchFile(line) ==
    IF StartsWith(line, "Saving ") THEN After(line, 1)
    ELSE IF StartsWith(line, "GZip...")
    THEN AbsPath(PathJoin(IF inputs.output_dir = None THEN Cwd ELSE inputs.output_dir,
                          After(line, 1)))
    ELSE IF StartsWith(line, "Number of diffusion directions ") THEN <<>>
    ELSE IF Contains(line, "-->") THEN AfterLastArrow(line)
    ELSE <<>>

\* how many of the four kinds of result a step adds to
KindsChanged ==
    (IF files' # files THEN 1 ELSE 0)
    + (IF reoriented_files' # reoriented_files THEN 1 ELSE 0)
    + (IF reoriented_and_cropped_files' # reoriented_and_cropped_files THEN 1 ELSE 0)
    + (IF bvecs' # bvecs \/ bvals' # bvals THEN 1 ELSE 0)

\* C19: a non-skipped line of Dcm2nii adds to at most one of converted
\* files, reoriented files, cropped files and the bvec/bval pair; when the
\* tests "Saving ", "GZip...", "Number of diffusion directions ", "-->",
\* taken in this order, give a file, the line records that converted file
\* only and sets no skip flag, and "Reorienting as " and "Cropping " are
\* looked at only when they give none
C19_FirstMatch ==
    [][(Iteration("Dcm2nii") /\ ~skip) =>
         LET line == stdout[i]
         IN  /\ KindsChanged <= 1
             /\ (pc' = "parse" /\ FirstMatchFile(line) # <<>>)
                => /\ files' = Append(files, FirstMatchFile(line))
                   /\ last_added_file' = FirstMatchFile(line)
                   /\ ~skip'
             /\ (pc' = "parse" /\ FirstMatchFile(line) = <<>>)
                => /\ files' = files
                   /\ skip' = (StartsWith(line, "Reorienting as ")
                                 \/ StartsWith(line, CropMarker))
                   /\ StartsWith(line, "Reorienting as ")
                        => reoriented_files' = Append(reoriented_files, After(line, 1))
                   /\ StartsWith(line, CropMarker)
                        => Len(reoriented_and_cropped_files')
                             = Len(reoriented_and_cropped_files) + 1]_vars

\* the line "Reorienting as a --> x" has been parsed: converted file "x", no
\* reoriented file, no skip
C19_Witness ==
    /\ adapter = "Dcm2nii" /\ pc = "parse" /\ i = 2
    /\ stdout[1] = NiiReorientArrow
    /\ files = <<<<"x">>>>
    /\ reoriented_files = <<>>
    /\ ~skip

\* last_added_file is the last converted file, or unset when there is none
LastIsLastConverted ==
    IF files = <<>> THEN last_added_file = None
    ELSE last_added_file = files[Len(files)]

ImageBase(P) ==
    IF Len(P) >= 4 /\ SubSeq(P, Len(P) - 3, Len(P)) = <<".", "nii", ".", "gz">>
    THEN SubSeq(P, 1, Len(P) - 4)
    ELSE IF Len(P) >= 2 /\ SubSeq(P, Len(P) - 1, Len(P)) = <<".", "nii">>
         THEN SubSeq(P, 1, Len(P) - 2)
         ELSE P

\* The base of a gradient file name: the path without ".bvec" / ".bval".
PairBase(P) == SubSeq(P, 1, Len(P) - 2)

\* C21: in both scrapers, after every processed line, bvecs and bvals have
\* the same length, their n-th entries are the same path except for the
\* ".bvec" / ".bval" extension, the base of every pair is the base (the path
\* without image extension) of some converted file, and in Dcm2niix there
\* are never more pairs than converted files.
C21_GradientPairing ==
    /\ Len(bvecs) = Len(bvals)
    /\ \A n \in 1..Len(bvecs) :
          /\ Len(bvecs[n]) >= 2
          /\ bvecs[n] = PairBase(bvecs[n]) \o <<".", "bvec">>
          /\ bvals[n] = PairBase(bvecs[n]) \o <<".", "bval">>
          /\ \E m \in 1..Len(files) : ImageBase(files[m]) = PairBase(bvecs[n])
    /\ (adapter = "Dcm2niix" => Len(bvecs) <= Len(files))

\* A gzipped image followed by a direction count: one pair next to the file.
C21_Witness ==
    /\ adapter = "Dcm2nii"
    /\ pc = "parse"
    /\ i = 3
    /\ Len(files) = 1
    /\ Len(files[1]) >= 4
    /\ SubSeq(files[1], Len(files[1]) - 3, Len(files[1])) = <<".", "nii", ".", "gz">>
    /\ Len(bvecs) = 1
    /\ Len(bvals) = 1
    /\ bvals[1] = ImageBase(files[1]) \o <<".", "bval">>

\* a line whose only marker is a "-->" that no blank follows
ArrowWithoutSpace(line) ==
    /\ \A m \in {"Saving ", "GZip...", "Number of diffusion directions "} :
          ~StartsWith(line, m)
    /\ ArrowFound(line)
    /\ ArrowSearch(line) = 0

\* C22: Dcm2nii._parse_stdout is total: no iteration raises, every call
\* returns its five sequences, and a line that holds "-->" without "--> ",
\* or a "Saving " line with nothing after the prefix, adds no entry to any
\* of the five sequences.
C22_Total ==
    [][/\ Iteration("Dcm2nii")
          => /\ error' # "AttributeError"
             /\ pc' = "parse"
             /\ i' = i + 1
             /\ (~skip /\ (ArrowWithoutSpace(stdout[i]) \/ stdout[i] = <<"Saving ">>))
                   => FiveUnchanged
       /\ (adapter = "Dcm2nii" /\ pc = "parse" /\ i > Len(stdout))
          => /\ pc' = "ran"
             /\ calls' # <<>>
             /\ calls'[Len(calls')].error = "none"
             /\ Len(calls'[Len(calls')].ret) = 5]_vars

\* the "Convert " lines among the lines parsed so far
ConvertLines == {j \in 1..Parsed : IsConvert(stdout[j])}

\* C23: in Dcm2niix._parse_stdout every line that starts with "Convert "
\* appends exactly one converted file and the parser never raises, so the
\* converted files are as many as the "Convert " lines parsed, whether or
\* not a "Convert " line holds a word with a "/" in it.
C23_EveryConvertCounts ==
    adapter = "Dcm2niix" =>
        /\ error # "AttributeError"
        /\ (pc \in {"parse", "ran"} => Len(files) = Cardinality(ConvertLines))

\* the output name the user gave to the adapter
UserName == inputs[OutNameField(adapter)]

\* _list_outputs of the MRtrix adapter has returned its record
Listed == adapter \in MrtrixAdapters /\ outputs[OutSlot(adapter)] # None

\* C24: for every MRtrix adapter, when the user sets the input that names
\* an output file (out_filename, out_WMProb_filename, out_file, out_noisemap,
\* out_bias) to a path P, the corresponding reported output is abspath(P).
C24_UserNameReported ==
    Listed =>
        /\ isdefined(UserName) => outputs[OutSlot(adapter)] = AbsPath(UserName)
        /\ (adapter \in FnameAdapters /\ isdefined(inputs[ExtraField(adapter)]))
              => outputs[ExtraField(adapter)] = AbsPath(inputs[ExtraField(adapter)])

\* MRConvert is given in_dir in place of in_file, and an output name
InDirWithName ==
    /\ adapter = "MRConvert"
    /\ ~isdefined(inputs.in_file)
    /\ isdefined(inputs.out_filename)

\* C25: MRConvert with in_dir set, in_file unset and out_filename set to P
\* does not fail: _list_outputs reports converted = abspath(P) and the
\* generation of the output name does not need in_file.
C25_InDirAccepted ==
    InDirWithName =>
        /\ error = "none"
        /\ outputs.converted # None => outputs.converted = AbsPath(inputs.out_filename)
        /\ genname # None => genname = inputs.out_filename

\* the argstr every shared field specification was declared with
DeclaredSpecs == \A opt \in DOMAIN specs : specs[opt] = ArgStr(opt)

\* C26: _format_arg of Dcm2nii and of Dcm2niix leaves the shared field
\* specification as it was declared: the " y" / " n" suffix goes to a private
\* copy, so formatting the same field again yields the same token, the
\* declared argstr with one suffix (never "-g y y").
C26_SharedSpecUnchanged ==
    /\ DeclaredSpecs
    /\ \A j, k \in 1..Len(formatted) :
          formatted[j].opt = formatted[k].opt => formatted[j].arg = formatted[k].arg
    /\ \A k \in 1..Len(formatted) :
          Len(formatted[k].arg) = Len(ArgStr(formatted[k].opt)) + 2

\* gzip_output is true and has been formatted three times: "-g y" each time
C26_Witness ==
    /\ Len(formatted) = 3
    /\ \A k \in 1..3 :
          /\ formatted[k].opt = "gzip_output"
          /\ formatted[k].val
          /\ formatted[k].arg = <<"-g", " ", "y">>
    /\ specs.gzip_output = <<"-g">>
====
